---- MODULE Spec2Model ----
(***************************************************************************)
(* Model of the harmonics reducer (src/src/app/harmonics.ts).              *)
(*                                                                         *)
(* Numbers are fixed-point integers:                                       *)
(*   frequencies  in hundredths of a hertz (261.63 Hz = 26163),            *)
(*   amplitudes and gains in tenths        (0.5 = 5, 1 = 10),              *)
(*   sine values  in thousandths           (sin 90 deg = 1000).            *)
(* A sample is amplitude * sine (unit 1/10000) and a sample of the total   *)
(* curve is gain * sum (unit 1/100000); no product is rounded.             *)
(***************************************************************************)
EXTENDS Integers, Sequences, FiniteSets, TLC

VARIABLES state, action, err, steps, defined, written,
          history, refs, pc, pending, seen

vars == <<state, action, err, steps, defined, written,
          history, refs, pc, pending, seen>>

\* ------------------------------------------------------------------------
\* Constants of the program
\* ------------------------------------------------------------------------
HARMONICS_COUNT == 13
SAMPLE_COUNT == 650
SAMPLE_RATE == 44100

\* Action type tags (the tag of CHANGE_MASTER_GAIN is 'CHANGE_TOTAL_GAIN').
START == "START"
STOP == "STOP"
CHANGE_FUNDAMENTAL_FREQUENCY == "CHANGE_FUNDAMENTAL_FREQUENCY"
CHANGE_AMPLITUDE == "CHANGE_AMPLITUDE"
CHANGE_MASTER_GAIN == "CHANGE_TOTAL_GAIN"
SWITCH_TO_PRESET == "SWITCH_TO_PRESET"

\* ------------------------------------------------------------------------
\* Bounds of the model
\* ------------------------------------------------------------------------
\* Number of actions dispatched in one behaviour.
MaxSteps == 2

\* Payloads offered to the reducer.  Nothing in the reducer validates a
\* payload, so the sets hold values outside the documented ranges too.
PartialNumbers == {-14, -1, 0, 2, 13}
Amplitudes == {0, 5}
Gains == {2, 12}
Frequencies == {44000, 0, -26163}
OtherTypes == {SWITCH_TO_PRESET, "CHANGE_MASTER_GAIN"}

\* Indices of existing partials: those offered when only valid mutations
\* are dispatched, and those on which algebraic properties are evaluated.
ValidPartialNumbers == {0, 2, 12}

\* Pairs of distinct valid indices on which commutation is evaluated.
CommutePairs == {<<0, 2>>}

\* ------------------------------------------------------------------------
\* curves.ts: the waveform sampler and the curve combiner
\* ------------------------------------------------------------------------
\* sin of d degrees (0 <= d < 360) in thousandths, Bhaskara's rational
\* approximation on the half turn and odd symmetry on the other half.
HalfSine(d) == (4000 * d * (180 - d)) \div (40500 - d * (180 - d))

\* The sine of every whole degree of the turn, tabulated once.
SineTable ==
  [d \in 0..359 |-> IF d <= 180 THEN HalfSine(d) ELSE 0 - HalfSine(d - 180)]

Sine(d) == SineTable[d]

\* The phase 2*pi*frequency*i/sampleRate of sample i, in whole degrees of
\* the current turn.  frequency is in hundredths of a hertz.
Phase(frequency, i, sampleRate) ==
  (((frequency * i) % (100 * sampleRate)) * 360) \div (100 * sampleRate)

\* sample i (0-based) = amplitude * sin(2*pi*frequency*i/sampleRate)
calculateSineCurve(frequency, amplitude, sampleCount, sampleRate) ==
  [n \in 1..sampleCount |->
     amplitude * Sine(Phase(frequency, n - 1, sampleRate))]

RECURSIVE SumAt(_, _, _)
SumAt(curves, i, k) ==
  IF k = 0 THEN 0 ELSE SumAt(curves, i, k - 1) + curves[k][i]

\* result[i] = gain * sum over the curves of curve[i]; no curves, no samples
combineCurves(curves, gain) ==
  IF Len(curves) = 0 THEN <<>>
  ELSE [i \in 1..Len(curves[1]) |-> gain * SumAt(curves, i, Len(curves))]

\* ------------------------------------------------------------------------
\* Immutable.js List: a negative index counts from the end of the list
\* ------------------------------------------------------------------------
wrapIndex(size, index) == IF index < 0 THEN size + index ELSE index

\* List.has(index): the wrapped index names an entry of the list
ListHas(list, index) ==
  /\ wrapIndex(Len(list), index) >= 0
  /\ wrapIndex(Len(list), index) < Len(list)

\* ------------------------------------------------------------------------
\* harmonics.ts
\* ------------------------------------------------------------------------
\* makePartial with every harmonic switched on.
makePartial_allOn(fundamentalFrequency, partial) ==
  [frequency |-> fundamentalFrequency * partial,
   amplitude |-> 10,
   data |-> <<>>]

makePartial(fundamentalFrequency, partial) ==
  [frequency |-> fundamentalFrequency * partial,
   amplitude |-> IF partial = 1 THEN 10 ELSE 0,
   data |-> <<>>]

updateCurve(partial) ==
  [partial EXCEPT !.data = calculateSineCurve(partial.frequency,
                                              partial.amplitude,
                                              SAMPLE_COUNT,
                                              SAMPLE_RATE)]

\* updateTotalCurve that normalises the sum by the number of curves.
updateTotalCurve_normalised(s) ==
  [s EXCEPT !.totalCurve =
     [i \in 1..SAMPLE_COUNT |->
        combineCurves([k \in 1..Len(s.partials) |-> s.partials[k].data],
                      s.masterGain)[i] \div Len(s.partials)]]

updateTotalCurve(s) ==
  [s EXCEPT !.totalCurve =
     combineCurves([k \in 1..Len(s.partials) |-> s.partials[k].data],
                   s.masterGain)]

makeInitialState ==
  LET fundamentalFrequency == 26163
      partials == [partialNumber \in 1..HARMONICS_COUNT |->
                     updateCurve(makePartial(fundamentalFrequency,
                                             partialNumber))]
  IN  updateTotalCurve([playing |-> FALSE,
                        masterGain |-> 5,
                        fundamentalFrequency |-> fundamentalFrequency,
                        partials |-> partials,
                        totalCurve |-> <<>>])

\* setPlayState that toggles the flag instead of setting it.
setPlayState_toggle(s, playing) == [s EXCEPT !.playing = ~s.playing]

setPlayState(s, playing) == [s EXCEPT !.playing = playing]

\* changeAmplitudeForPartial that keeps the old curve.
changeAmplitudeForPartial_stale(partial, amplitude) ==
  [partial EXCEPT !.amplitude = amplitude]

\* changeAmplitudeForPartial that takes the payload as an increment.
changeAmplitudeForPartial_add(partial, amplitude) ==
  updateCurve([partial EXCEPT !.amplitude = @ + amplitude])

changeAmplitudeForPartial(partial, amplitude) ==
  updateCurve([partial EXCEPT !.amplitude = amplitude])

\* changeAmplitude that gives the amplitude to every partial.
changeAmplitude_all(s, partialNumber, amplitude) ==
  updateTotalCurve(
    [s EXCEPT !.partials =
       [k \in 1..Len(s.partials) |->
          changeAmplitudeForPartial(s.partials[k], amplitude)]])

\* changeAmplitude that adds the new curve of the partial to the total
\* curve instead of recombining all partials.
changeAmplitude_accumulate(s, partialNumber, amplitude) ==
  LET i == wrapIndex(Len(s.partials), partialNumber) + 1
      p == changeAmplitudeForPartial(s.partials[i], amplitude)
  IN  [s EXCEPT !.partials[i] = p,
                !.totalCurve = [n \in 1..SAMPLE_COUNT |->
                                  s.totalCurve[n] + s.masterGain * p.data[n]]]

\* changeAmplitude that combines the total curve before the partial is
\* updated.
changeAmplitude_early(s, partialNumber, amplitude) ==
  [updateTotalCurve(s) EXCEPT
     !.partials[wrapIndex(Len(s.partials), partialNumber) + 1] =
        changeAmplitudeForPartial(@, amplitude)]

\* updateIn(['partials', partialNumber], ...) on an index the list has
changeAmplitude(s, partialNumber, amplitude) ==
  updateTotalCurve(
    [s EXCEPT !.partials[wrapIndex(Len(s.partials), partialNumber) + 1] =
       changeAmplitudeForPartial(@, amplitude)])

\* On an index the list does not have, updateIn hands undefined to the
\* updater and partial.merge raises a TypeError.
changeAmplitudeThrows(s, partialNumber) == ~ListHas(s.partials, partialNumber)

\* setPartialFrequencies that multiplies by the index, not by index + 1.
setPartialFrequencies_index(partials, fundamentalFrequency) ==
  [k \in 1..Len(partials) |->
     updateCurve([partials[k] EXCEPT
                    !.frequency = fundamentalFrequency * (k - 1)])]

\* setPartialFrequencies that retunes only the partials that sound.
setPartialFrequencies_audible(partials, fundamentalFrequency) ==
  LET audible == SelectSeq(partials, LAMBDA p : p.amplitude # 0)
  IN  [k \in 1..Len(audible) |->
         updateCurve([audible[k] EXCEPT
                        !.frequency = fundamentalFrequency * ((k - 1) + 1)])]

setPartialFrequencies(partials, fundamentalFrequency) ==
  [k \in 1..Len(partials) |->
     updateCurve([partials[k] EXCEPT
                    !.frequency = fundamentalFrequency * ((k - 1) + 1)])]

\* changeFundamentalFrequency that builds the partials anew.
changeFundamentalFrequency_rebuild(s, fundamentalFrequency) ==
  updateTotalCurve(
    [s EXCEPT !.fundamentalFrequency = fundamentalFrequency,
              !.partials =
                 [k \in 1..Len(s.partials) |->
                    updateCurve(makePartial(fundamentalFrequency, k))]])

changeFundamentalFrequency(s, fundamentalFrequency) ==
  updateTotalCurve(
    [s EXCEPT !.fundamentalFrequency = fundamentalFrequency,
              !.partials = setPartialFrequencies(@, fundamentalFrequency)])

\* changeMasterGain that does not recombine the total curve.
changeMasterGain_stale(s, masterGain) == [s EXCEPT !.masterGain = masterGain]

changeMasterGain(s, masterGain) ==
  updateTotalCurve([s EXCEPT !.masterGain = masterGain])

\* The reducer with a default case that falls back to the initial state.
harmonicsReducer_reset(s, a) ==
  CASE a.type = START -> setPlayState(s, TRUE)
    [] a.type = STOP -> setPlayState(s, FALSE)
    [] a.type = CHANGE_AMPLITUDE ->
         changeAmplitude(s, a.payload.partial, a.payload.amplitude)
    [] a.type = CHANGE_MASTER_GAIN -> changeMasterGain(s, a.payload.value)
    [] a.type = CHANGE_FUNDAMENTAL_FREQUENCY ->
         changeFundamentalFrequency(s, a.payload.value)
    [] OTHER -> makeInitialState

\* The reducer: the new state for an action that does not throw.
harmonicsReducer(s, a) ==
  CASE a.type = START -> setPlayState(s, TRUE)
    [] a.type = STOP -> setPlayState(s, FALSE)
    [] a.type = CHANGE_AMPLITUDE ->
         changeAmplitude(s, a.payload.partial, a.payload.amplitude)
    [] a.type = CHANGE_MASTER_GAIN -> changeMasterGain(s, a.payload.value)
    [] a.type = CHANGE_FUNDAMENTAL_FREQUENCY ->
         changeFundamentalFrequency(s, a.payload.value)
    [] OTHER -> s

\* The action types that the switch of the reducer handles.
HandledTypes ==
  {START, STOP, CHANGE_AMPLITUDE, CHANGE_MASTER_GAIN,
   CHANGE_FUNDAMENTAL_FREQUENCY}

\* The reducer raises an exception instead of returning a state.
harmonicsReducerThrows(s, a) ==
  /\ a.type = CHANGE_AMPLITUDE
  /\ changeAmplitudeThrows(s, a.payload.partial)

\* ------------------------------------------------------------------------
\* The store: one state cell, replaced by the reducer's result
\* ------------------------------------------------------------------------
NoPayload == [partial |-> 0, amplitude |-> 0, value |-> 0]

MakeAction(type, payload) == [type |-> type, payload |-> payload]

\* What the cell holds before any state was stored in it (undefined).
Undefined ==
  [playing |-> FALSE, masterGain |-> 0, fundamentalFrequency |-> 0,
   partials |-> <<>>, totalCurve |-> <<>>]

\* The default parameter ignored: the reducer works on what it was given.
stateOrDefault_none(isDefined, s) == s

\* The reducer's parameter "state = makeInitialState()": an undefined
\* argument is replaced by the initial state.
stateOrDefault(isDefined, s) == IF isDefined THEN s ELSE makeInitialState

\* The value last written to each parameter by a mutation that names an
\* existing parameter; the amplitude of 0-based partial i is at i + 1.
InitialWritten ==
  [playing |-> FALSE, masterGain |-> 5, fundamentalFrequency |-> 26163,
   amplitude |-> [k \in 1..HARMONICS_COUNT |-> IF k = 1 THEN 10 ELSE 0]]

Written(w, a) ==
  CASE a.type = START -> [w EXCEPT !.playing = TRUE]
    [] a.type = STOP -> [w EXCEPT !.playing = FALSE]
    [] a.type = CHANGE_AMPLITUDE ->
         IF a.payload.partial >= 0 /\ a.payload.partial < HARMONICS_COUNT
           THEN [w EXCEPT !.amplitude[a.payload.partial + 1] =
                            a.payload.amplitude]
           ELSE w
    [] a.type = CHANGE_MASTER_GAIN -> [w EXCEPT !.masterGain = a.payload.value]
    [] a.type = CHANGE_FUNDAMENTAL_FREQUENCY ->
         [w EXCEPT !.fundamentalFrequency = a.payload.value]
    [] OTHER -> w

\* The identities of the objects of the initial snapshot: the state record
\* and the 13 partial records.
InitialRefs == [self |-> 0, partials |-> [k \in 1..HARMONICS_COUNT |-> k]]

Init ==
  /\ state = makeInitialState
  /\ action = MakeAction("", NoPayload)
  /\ err = "none"
  /\ steps = 0
  /\ defined = TRUE
  /\ written = InitialWritten
  /\ history = <<>>
  /\ refs = InitialRefs
  /\ pc = 0
  /\ pending = Undefined
  /\ seen = Undefined

\* One call of the reducer on the cell: the cell takes the reducer's
\* result; an exception leaves the cell as it was and reaches the
\* dispatcher.
Reduce(a) ==
  /\ steps < MaxSteps
  /\ steps' = steps + 1
  /\ action' = a
  /\ written' = Written(written, a)
  /\ IF harmonicsReducerThrows(stateOrDefault(defined, state), a)
       THEN /\ err' = "TypeError"
            /\ state' = state
            /\ defined' = defined
       ELSE /\ err' = "none"
            /\ state' = harmonicsReducer(stateOrDefault(defined, state), a)
            /\ defined' = TRUE

\* dispatch(a) with nobody retaining or reading snapshots.
Dispatch(a) ==
  /\ Reduce(a)
  /\ UNCHANGED <<history, refs, pc, pending, seen>>

Start == Dispatch(MakeAction(START, NoPayload))

Stop == Dispatch(MakeAction(STOP, NoPayload))

ChangeAmplitude ==
  \E p \in PartialNumbers, amp \in Amplitudes :
    Dispatch(MakeAction(CHANGE_AMPLITUDE,
                        [partial |-> p, amplitude |-> amp, value |-> 0]))

ChangeMasterGain ==
  \E g \in Gains :
    Dispatch(MakeAction(CHANGE_MASTER_GAIN, [NoPayload EXCEPT !.value = g]))

ChangeFundamentalFrequency ==
  \E f \in Frequencies :
    Dispatch(MakeAction(CHANGE_FUNDAMENTAL_FREQUENCY,
                        [NoPayload EXCEPT !.value = f]))

Unrecognized ==
  \E t \in OtherTypes : Dispatch(MakeAction(t, NoPayload))

\* CHANGE_AMPLITUDE on the index of an existing partial.
ChangeAmplitudeValid ==
  \E p \in ValidPartialNumbers, amp \in Amplitudes :
    Dispatch(MakeAction(CHANGE_AMPLITUDE,
                        [partial |-> p, amplitude |-> amp, value |-> 0]))

Next ==
  \/ Start
  \/ Stop
  \/ ChangeAmplitude
  \/ ChangeMasterGain
  \/ ChangeFundamentalFrequency
  \/ Unrecognized

Spec == Init /\ [][Next]_vars

\* Only mutations that name an existing partial are dispatched.
NextValid ==
  \/ Start
  \/ Stop
  \/ ChangeAmplitudeValid
  \/ ChangeMasterGain
  \/ ChangeFundamentalFrequency
  \/ Unrecognized

SpecValid == Init /\ [][NextValid]_vars

\* The cell is undefined until the first call of the reducer returns.
InitBoot ==
  /\ state = Undefined
  /\ action = MakeAction("", NoPayload)
  /\ err = "none"
  /\ steps = 0
  /\ defined = FALSE
  /\ written = InitialWritten
  /\ history = <<>>
  /\ refs = InitialRefs
  /\ pc = 0
  /\ pending = Undefined
  /\ seen = Undefined

SpecBoot == InitBoot /\ [][Next]_vars

\* Every action that is dispatched.
Mutations ==
  {MakeAction(START, NoPayload), MakeAction(STOP, NoPayload)}
  \cup {MakeAction(CHANGE_AMPLITUDE,
                   [partial |-> p, amplitude |-> amp, value |-> 0]) :
          p \in PartialNumbers, amp \in Amplitudes}
  \cup {MakeAction(CHANGE_MASTER_GAIN, [NoPayload EXCEPT !.value = g]) :
          g \in Gains}
  \cup {MakeAction(CHANGE_FUNDAMENTAL_FREQUENCY,
                   [NoPayload EXCEPT !.value = f]) : f \in Frequencies}
  \cup {MakeAction(t, NoPayload) : t \in OtherTypes}

\* ------------------------------------------------------------------------
\* A collaborator that retains every published snapshot
\* ------------------------------------------------------------------------
\* The result of merge written into the receiver itself.
mergeResult_inPlace(receiver, fresh) == receiver

\* The object that holds the result of receiver.merge(...) (likewise
\* updateIn, update and map): a new one; the receiver is not written.
mergeResult(receiver, fresh) == fresh

\* The identity of the object allocated in call n of the reducer for the
\* state record (k = 0) or for the partial record at position k.
FreshRef(n, k) == n * (HARMONICS_COUNT + 1) + k

\* The positions of the partial records that the reducer replaces through
\* updateCurve.
Touched(s, a) ==
  CASE a.type = CHANGE_AMPLITUDE ->
         {wrapIndex(Len(s.partials), a.payload.partial) + 1}
    [] a.type = CHANGE_FUNDAMENTAL_FREQUENCY -> 1..Len(s.partials)
    [] OTHER -> {}

\* The objects of the snapshot that the reducer returns for action a in
\* call n: every handled case ends in a merge on the state record, the
\* default case returns the state it was given.
RefsAfter(r, s, a, n) ==
  IF harmonicsReducerThrows(s, a) \/ a.type \notin HandledTypes
    THEN r
    ELSE [self |-> mergeResult(r.self, FreshRef(n, 0)),
          partials |->
            [k \in 1..Len(r.partials) |->
               IF k \in Touched(s, a)
                 THEN mergeResult(r.partials[k], FreshRef(n, k))
                 ELSE r.partials[k]]]

\* What the holder of a retained snapshot reads after the reducer returned
\* the snapshot new made of the objects newRefs: the content of an object
\* that was written is the new content.
Reread(entry, newRefs, new, touched) ==
  IF entry.refs.self = newRefs.self
    THEN [entry EXCEPT !.snapshot = new]
    ELSE [entry EXCEPT !.snapshot.partials =
            [k \in 1..Len(@) |->
               IF k \in touched /\ entry.refs.partials[k] = newRefs.partials[k]
                 THEN new.partials[k]
                 ELSE @[k]]]

InitHistory ==
  /\ state = makeInitialState
  /\ action = MakeAction("", NoPayload)
  /\ err = "none"
  /\ steps = 0
  /\ defined = TRUE
  /\ written = InitialWritten
  /\ history = <<[snapshot |-> makeInitialState, refs |-> InitialRefs]>>
  /\ refs = InitialRefs
  /\ pc = 0
  /\ pending = Undefined
  /\ seen = Undefined

\* dispatch(a) with a collaborator that keeps the published snapshot.
Retain(a) ==
  /\ Reduce(a)
  /\ refs' = RefsAfter(refs, state, a, steps + 1)
  /\ history' =
       Append([h \in 1..Len(history) |->
                 Reread(history[h], refs', state',
                        IF harmonicsReducerThrows(state, a)
                          THEN {} ELSE Touched(state, a))],
              [snapshot |-> state', refs |-> refs'])
  /\ UNCHANGED <<pc, pending, seen>>

NextHistory == \E a \in Mutations : Retain(a)

SpecHistory == InitHistory /\ [][NextHistory]_vars

\* ------------------------------------------------------------------------
\* A reader of the cell while the reducer runs
\* ------------------------------------------------------------------------
\* Number of calls of the reducer while a reader watches the cell.
MaxCalls == 1

\* The values that the reducer builds one after the other for an action
\* that does not throw; the last one is the value it returns.
Stages(s, a) ==
  CASE a.type = START -> <<setPlayState(s, TRUE)>>
    [] a.type = STOP -> <<setPlayState(s, FALSE)>>
    [] a.type = CHANGE_AMPLITUDE ->
         LET updated ==
               [s EXCEPT
                  !.partials[wrapIndex(Len(s.partials), a.payload.partial)
                             + 1] =
                     changeAmplitudeForPartial(@, a.payload.amplitude)]
         IN  <<updated, updateTotalCurve(updated)>>
    [] a.type = CHANGE_MASTER_GAIN ->
         LET merged == [s EXCEPT !.masterGain = a.payload.value]
         IN  <<merged, updateTotalCurve(merged)>>
    [] a.type = CHANGE_FUNDAMENTAL_FREQUENCY ->
         LET merged == [s EXCEPT !.fundamentalFrequency = a.payload.value]
             updated ==
               [merged EXCEPT
                  !.partials = setPartialFrequencies(@, a.payload.value)]
         IN  <<merged, updated, updateTotalCurve(updated)>>
    [] OTHER -> <<s>>

\* What a read of the cell yields while the reducer holds the value
\* pending: the reducer builds its values in the objects that merge
\* returns, and the cell still names the state record it was called with.
CellContent(cell, cellRef, building, value, n) ==
  IF building /\ mergeResult(cellRef, FreshRef(n, 0)) = cellRef
    THEN value
    ELSE cell

\* The reducer is called with the cell's state and builds its first value,
\* or throws.
Call(a) ==
  /\ pc = 0
  /\ steps < MaxCalls
  /\ action' = a
  /\ IF harmonicsReducerThrows(state, a)
       THEN /\ err' = "TypeError"
            /\ steps' = steps + 1
            /\ UNCHANGED <<pc, pending>>
       ELSE /\ err' = "none"
            /\ pc' = 1
            /\ pending' = Stages(state, a)[1]
            /\ UNCHANGED steps
  /\ UNCHANGED <<state, defined, written, history, refs, seen>>

\* The reducer builds its next value from the one before.
Build ==
  /\ pc > 0
  /\ pc < Len(Stages(state, action))
  /\ pc' = pc + 1
  /\ pending' = Stages(state, action)[pc + 1]
  /\ UNCHANGED <<state, action, err, steps, defined, written,
                 history, refs, seen>>

\* The reducer returns and the cell takes the value.
Return ==
  /\ pc > 0
  /\ pc = Len(Stages(state, action))
  /\ state' = pending
  /\ pc' = 0
  /\ pending' = Undefined
  /\ steps' = steps + 1
  /\ UNCHANGED <<action, err, defined, written, history, refs, seen>>

\* The rendering collaborator reads the cell.
Read ==
  /\ seen' = CellContent(state, refs.self, pc > 0, pending, steps + 1)
  /\ UNCHANGED <<state, action, err, steps, defined, written,
                 history, refs, pc, pending>>

NextReader ==
  \/ \E a \in Mutations : Call(a)
  \/ Build
  \/ Return
  \/ Read

SpecReader == Init /\ [][NextReader]_vars

\* ------------------------------------------------------------------------
\* Properties
\* ------------------------------------------------------------------------
\* The partial's data is what the sampler yields for its frequency and
\* amplitude, sample by sample.
Sampled(p) ==
  /\ Len(p.data) = SAMPLE_COUNT
  /\ \A n \in 1..SAMPLE_COUNT :
       p.data[n] = p.amplitude * Sine(Phase(p.frequency, n - 1, SAMPLE_RATE))

\* The sum of sample n over the data of the given partials.
RECURSIVE PartialSum(_, _, _)
PartialSum(partials, n, k) ==
  IF k = 0 THEN 0 ELSE PartialSum(partials, n, k - 1) + partials[k].data[n]

\* curve is gain times the pointwise sum of the data of the partials.
Combined(curve, partials, gain) ==
  /\ Len(curve) = SAMPLE_COUNT
  /\ \A n \in 1..SAMPLE_COUNT :
       curve[n] = gain * PartialSum(partials, n, Len(partials))

\* The step dispatches an action of the given type.
Dispatched(type) == steps' = steps + 1 /\ action'.type = type

\* C1: in every reachable state the total curve is the combiner applied to
\* the current data of all 13 partials and the current master gain.
TotalCurveConsistent ==
  /\ Len(state.partials) = HARMONICS_COUNT
  /\ Combined(state.totalCurve, state.partials, state.masterGain)

\* C1 witness: a gain change after an amplitude change, with a total curve
\* that is not flat.
TotalCurveConsistentWitness ==
  /\ steps = 2
  /\ action.type = CHANGE_MASTER_GAIN
  /\ state.masterGain = 2
  /\ state.partials[3].amplitude = 5
  /\ \E n \in 1..SAMPLE_COUNT : state.totalCurve[n] # 0

\* C2: in every reachable state the data of every partial is the sampler's
\* output for the partial's current frequency and amplitude.
PartialDataFresh ==
  \A k \in 1..Len(state.partials) : Sampled(state.partials[k])

\* C2 witness: a partial whose amplitude and then frequency were changed.
PartialDataFreshWitness ==
  /\ steps = 2
  /\ action.type = CHANGE_FUNDAMENTAL_FREQUENCY
  /\ state.partials[3].frequency = 132000
  /\ state.partials[3].amplitude = 5
  /\ \E n \in 1..SAMPLE_COUNT : state.partials[3].data[n] # 0

\* C3: in every reachable state the partial at 0-based index i has the
\* frequency fundamentalFrequency * (i + 1).
PartialFrequencies ==
  \A k \in 1..Len(state.partials) :
    state.partials[k].frequency = state.fundamentalFrequency * k

\* C3 witness: the partials after the fundamental was set to 440 Hz.
PartialFrequenciesWitness ==
  /\ action.type = CHANGE_FUNDAMENTAL_FREQUENCY
  /\ state.fundamentalFrequency = 44000
  /\ state.partials[2].frequency = 88000
  /\ state.partials[13].frequency = 572000

\* C4: CHANGE_AMPLITUDE on an index in 0..12 gives that partial the new
\* amplitude, keeps its frequency and resamples its data; the other
\* partials, fundamentalFrequency and masterGain are unchanged and the
\* total curve is recombined over all partials.
ChangeAmplitudeFrame ==
  [][(/\ Dispatched(CHANGE_AMPLITUDE)
      /\ action'.payload.partial >= 0
      /\ action'.payload.partial < HARMONICS_COUNT)
     => LET i == action'.payload.partial + 1
        IN  /\ err' = "none"
            /\ state'.partials[i].amplitude = action'.payload.amplitude
            /\ state'.partials[i].frequency = state.partials[i].frequency
            /\ Sampled(state'.partials[i])
            /\ Len(state'.partials) = Len(state.partials)
            /\ \A k \in 1..Len(state.partials) :
                 k # i => state'.partials[k] = state.partials[k]
            /\ state'.fundamentalFrequency = state.fundamentalFrequency
            /\ state'.masterGain = state.masterGain
            /\ Combined(state'.totalCurve, state'.partials,
                        state'.masterGain)]_vars

\* C4 witness: CHANGE_AMPLITUDE(2, 0.5) has changed the third partial.
ChangeAmplitudeFrameWitness ==
  /\ action.type = CHANGE_AMPLITUDE
  /\ action.payload.partial = 2
  /\ action.payload.amplitude = 5
  /\ err = "none"
  /\ state.partials[3].amplitude = 5
  /\ state.partials[1].amplitude = 10

\* C5: CHANGE_AMPLITUDE on an index outside 0..12 is reported as an error
\* and leaves the partials and the total curve as they were.
ChangeAmplitudeOutOfRange ==
  [][(/\ Dispatched(CHANGE_AMPLITUDE)
      /\ \/ action'.payload.partial < 0
         \/ action'.payload.partial >= HARMONICS_COUNT)
     => /\ err' # "none"
        /\ state' = state]_vars

\* C6: CHANGE_FUNDAMENTAL_FREQUENCY(f) with f > 0 sets fundamentalFrequency
\* to f, gives the partial at 0-based index i the frequency f * (i + 1) and
\* resampled data, keeps the order and the amplitudes of the partials, and
\* leaves masterGain unchanged.
ChangeFundamentalFrequencyFrame ==
  [][(/\ Dispatched(CHANGE_FUNDAMENTAL_FREQUENCY)
      /\ action'.payload.value > 0)
     => /\ err' = "none"
        /\ state'.fundamentalFrequency = action'.payload.value
        /\ Len(state'.partials) = Len(state.partials)
        /\ \A k \in 1..Len(state.partials) :
             /\ state'.partials[k].frequency = action'.payload.value * k
             /\ state'.partials[k].amplitude = state.partials[k].amplitude
             /\ Sampled(state'.partials[k])
        /\ state'.masterGain = state.masterGain]_vars

\* C6 witness: the fundamental was set to 440 Hz while the third partial
\* had the amplitude 0.5.
ChangeFundamentalFrequencyFrameWitness ==
  /\ steps = 2
  /\ action.type = CHANGE_FUNDAMENTAL_FREQUENCY
  /\ action.payload.value = 44000
  /\ state.fundamentalFrequency = 44000
  /\ state.partials[1].frequency = 44000
  /\ state.partials[3].amplitude = 5

\* C7: CHANGE_MASTER_GAIN sets masterGain to the given gain and recomputes
\* the total curve as the gain times the pointwise sum of the existing
\* partial data; the partials and fundamentalFrequency are unchanged.
ChangeMasterGainFrame ==
  [][Dispatched(CHANGE_MASTER_GAIN)
     => /\ err' = "none"
        /\ state'.masterGain = action'.payload.value
        /\ Combined(state'.totalCurve, state.partials, action'.payload.value)
        /\ state'.partials = state.partials
        /\ state'.fundamentalFrequency = state.fundamentalFrequency]_vars

\* C7 witness: the gain was set to 0.2 over partials that are not the
\* initial ones.
ChangeMasterGainFrameWitness ==
  /\ steps = 2
  /\ action.type = CHANGE_MASTER_GAIN
  /\ action.payload.value = 2
  /\ state.masterGain = 2
  /\ state.fundamentalFrequency = 44000
  /\ \E n \in 1..SAMPLE_COUNT : state.totalCurve[n] # 0

\* C8: START sets playing to true and STOP sets it to false, from any
\* state, and neither changes any other field of the state.
PlayStateFrame ==
  [][(Dispatched(START) \/ Dispatched(STOP))
     => /\ err' = "none"
        /\ state'.playing = (action'.type = START)
        /\ state'.masterGain = state.masterGain
        /\ state'.fundamentalFrequency = state.fundamentalFrequency
        /\ state'.partials = state.partials
        /\ state'.totalCurve = state.totalCurve
        /\ DOMAIN state' = DOMAIN state]_vars

\* C8 witness: START was the second action dispatched and the state plays.
PlayStateFrameWitness ==
  /\ steps = 2
  /\ action.type = START
  /\ err = "none"
  /\ state.playing

\* C9: an action whose type is not one of the five handled types leaves
\* the state unchanged and raises no error.
UnrecognizedIsIdentity ==
  [][(/\ steps' = steps + 1
      /\ action'.type \notin HandledTypes)
     => /\ state' = state
        /\ err' = "none"]_vars

\* C9 witness: SWITCH_TO_PRESET was dispatched on a state that is not the
\* initial one.
UnrecognizedIsIdentityWitness ==
  /\ steps = 2
  /\ action.type = SWITCH_TO_PRESET
  /\ err = "none"
  /\ state.playing
  /\ state.masterGain = 5

\* C10: the initial state is not playing, has the master gain 0.5, the
\* fundamental 261.63 Hz and 13 partials, the partial at 0-based index i
\* with the frequency 261.63 * (i + 1), the amplitude 1 at index 0 and 0
\* elsewhere; the data of every partial and the total curve are computed.
InitialStateValues ==
  steps = 0 =>
    /\ state.playing = FALSE
    /\ state.masterGain = 5
    /\ state.fundamentalFrequency = 26163
    /\ Len(state.partials) = 13
    /\ \A k \in 1..13 :
         /\ state.partials[k].frequency = 26163 * k
         /\ state.partials[k].amplitude = (IF k = 1 THEN 10 ELSE 0)
         /\ Sampled(state.partials[k])
    /\ Combined(state.totalCurve, state.partials, 5)

\* C10 witness: the initial state, whose fundamental partial and total
\* curve are not flat.
InitialStateValuesWitness ==
  /\ steps = 0
  /\ action.type = ""
  /\ \E n \in 1..SAMPLE_COUNT : state.partials[1].data[n] # 0
  /\ \E n \in 1..SAMPLE_COUNT : state.totalCurve[n] # 0

\* C11: from every reachable state, CHANGE_AMPLITUDE on a valid index with
\* the amplitude the partial already has yields the same total curve and
\* the same data of that partial, sample by sample.
SameAmplitudeIdempotent ==
  \A i \in ValidPartialNumbers :
    LET after == harmonicsReducer(
                   state,
                   MakeAction(CHANGE_AMPLITUDE,
                              [partial |-> i,
                               amplitude |-> state.partials[i + 1].amplitude,
                               value |-> 0]))
    IN  /\ ~harmonicsReducerThrows(
              state, MakeAction(CHANGE_AMPLITUDE,
                                [partial |-> i, amplitude |-> 0, value |-> 0]))
        /\ \A n \in 1..SAMPLE_COUNT :
             /\ after.totalCurve[n] = state.totalCurve[n]
             /\ after.partials[i + 1].data[n] = state.partials[i + 1].data[n]

\* C11 witness: a state whose first and third partials sound, so that the
\* curves that are reproduced are not flat.
SameAmplitudeIdempotentWitness ==
  /\ state.partials[1].amplitude = 10
  /\ state.partials[3].amplitude = 5
  /\ state.masterGain = 2
  /\ \E n \in 1..SAMPLE_COUNT : state.partials[3].data[n] # 0
  /\ \E n \in 1..SAMPLE_COUNT : state.totalCurve[n] # 0

\* C12: in every reachable state the list of partials has exactly 13
\* entries, the entry at 0-based index i being harmonic i + 1 of the first.
PartialsFixed ==
  /\ Len(state.partials) = HARMONICS_COUNT
  /\ DOMAIN state.partials = 1..HARMONICS_COUNT
  /\ \A k \in 1..Len(state.partials) :
       state.partials[k].frequency = k * state.partials[1].frequency

\* C12 witness: an amplitude change on index 13, one past the end of the
\* list, after the partials were retuned.
PartialsFixedWitness ==
  /\ steps = 2
  /\ action.type = CHANGE_AMPLITUDE
  /\ action.payload.partial = HARMONICS_COUNT
  /\ err = "TypeError"
  /\ state.fundamentalFrequency = 44000
  /\ Len(state.partials) = 13

\* C15: in every reachable state fundamentalFrequency is positive, and so
\* is the frequency of every partial.
FundamentalPositive ==
  /\ state.fundamentalFrequency > 0
  /\ \A k \in 1..Len(state.partials) : state.partials[k].frequency > 0

\* C16: in every reachable state masterGain lies in [0, 1].
MasterGainInRange == state.masterGain >= 0 /\ state.masterGain <= 10

\* The snapshot that the given parameter values determine.
StateOf(w) ==
  [playing |-> w.playing,
   masterGain |-> w.masterGain,
   fundamentalFrequency |-> w.fundamentalFrequency,
   partials |->
     [k \in 1..HARMONICS_COUNT |->
        [frequency |-> w.fundamentalFrequency * k,
         amplitude |-> w.amplitude[k],
         data |-> [n \in 1..SAMPLE_COUNT |->
                     w.amplitude[k] *
                       Sine(Phase(w.fundamentalFrequency * k, n - 1,
                                  SAMPLE_RATE))]]],
   totalCurve |->
     [n \in 1..SAMPLE_COUNT |->
        LET RECURSIVE Sum(_)
            Sum(k) ==
              IF k = 0 THEN 0
              ELSE Sum(k - 1) +
                   w.amplitude[k] *
                     Sine(Phase(w.fundamentalFrequency * k, n - 1,
                                SAMPLE_RATE))
        IN  w.masterGain * Sum(HARMONICS_COUNT)]]

\* C17: after any sequence of valid mutations the state is the one that
\* the last value written to each parameter determines: playing, masterGain,
\* fundamentalFrequency and every amplitude are the last values written (the
\* initial ones if none was), and all data and the total curve follow from
\* them, whatever the path.
LastWriteWins ==
  /\ state.playing = written.playing
  /\ state.masterGain = written.masterGain
  /\ state.fundamentalFrequency = written.fundamentalFrequency
  /\ \A k \in 1..HARMONICS_COUNT :
       state.partials[k].amplitude = written.amplitude[k]
  /\ state = StateOf(written)

\* C17 witness: two parameters were written, an amplitude and then the
\* fundamental frequency.
LastWriteWinsWitness ==
  /\ steps = 2
  /\ action.type = CHANGE_FUNDAMENTAL_FREQUENCY
  /\ written.fundamentalFrequency = 44000
  /\ written.amplitude[3] = 5
  /\ state.partials[3].frequency = 132000
  /\ state.partials[3].amplitude = 5

\* C18: from every reachable state, CHANGE_AMPLITUDE(i, a) followed by
\* CHANGE_AMPLITUDE(j, b) on two distinct valid indices yields the same
\* state as the two in the opposite order.
AmplitudeChangesCommute ==
  \A pair \in CommutePairs :
    LET i == pair[1]
        j == pair[2]
        first == [a \in Amplitudes |-> changeAmplitude(state, i, a)]
        second == [b \in Amplitudes |-> changeAmplitude(state, j, b)]
    IN  \A a \in Amplitudes, b \in Amplitudes :
          changeAmplitude(first[a], j, b) = changeAmplitude(second[b], i, a)

\* C18 witness: a state reached by amplitude changes on the two indices,
\* in which both partials sound.
AmplitudeChangesCommuteWitness ==
  /\ steps = 2
  /\ action.type = CHANGE_AMPLITUDE
  /\ action.payload.partial = 2
  /\ state.partials[1].amplitude = 5
  /\ state.partials[3].amplitude = 5

\* C19: a call of the reducer on an undefined state returns the initial
\* state for an unrecognized action and, for a recognized one, the result
\* of applying the action to the initial state.
UndefinedStateDefaults ==
  [][(~defined /\ steps' = steps + 1)
     => IF harmonicsReducerThrows(makeInitialState, action')
          THEN err' = "TypeError" /\ ~defined'
          ELSE /\ defined'
               /\ err' = "none"
               /\ action'.type \notin HandledTypes
                    => state' = makeInitialState
               /\ action'.type \in HandledTypes
                    => state' = harmonicsReducer(makeInitialState, action')
               /\ Len(state'.partials) = HARMONICS_COUNT
               /\ state'.fundamentalFrequency =
                    (IF action'.type = CHANGE_FUNDAMENTAL_FREQUENCY
                       THEN action'.payload.value ELSE 26163)]_vars

\* C19 witness: the first call, on the undefined cell, was START.
UndefinedStateDefaultsWitness ==
  /\ steps = 1
  /\ defined
  /\ action.type = START
  /\ state.playing
  /\ state.fundamentalFrequency = 26163
  /\ Len(state.partials) = HARMONICS_COUNT

\* C13: no transition changes a snapshot that a collaborator retains: every
\* field of every snapshot of the history keeps the value it had.
RetainedSnapshotsFrozen ==
  [][\A h \in 1..Len(history) :
       /\ h <= Len(history')
       /\ history'[h].snapshot = history[h].snapshot]_vars

\* C13 witness: the history holds a snapshot in which the third partial
\* had the amplitude 0.5, and a later mutation has set it back to 0.
RetainedSnapshotsFrozenWitness ==
  /\ steps = 2
  /\ Len(history) = 3
  /\ history[1].snapshot.partials[3].amplitude = 0
  /\ history[2].snapshot.partials[3].amplitude = 5
  /\ \E n \in 1..SAMPLE_COUNT : history[2].snapshot.partials[3].data[n] # 0
  /\ history[3].snapshot = state
  /\ state.partials[3].amplitude = 0

\* The snapshot is whole: the partials are the harmonics of its
\* fundamental, their data is sampled from their frequency and amplitude
\* and its total curve combines their data with its gain.
Whole(s) ==
  /\ Len(s.partials) = HARMONICS_COUNT
  /\ \A k \in 1..HARMONICS_COUNT :
       /\ s.partials[k].frequency = s.fundamentalFrequency * k
       /\ Sampled(s.partials[k])
  /\ Combined(s.totalCurve, s.partials, s.masterGain)

\* C14: a read of the cell at any point of a call of the reducer yields
\* the snapshot before the call or the snapshot that the call returns, and
\* never a snapshot that is not whole; the cell takes the returned snapshot
\* in one step.
ReaderSeesWholeSnapshot ==
  [][/\ seen' # seen
       => /\ Whole(seen')
          /\ \/ seen' = state
             \/ /\ pc > 0
                /\ seen' = harmonicsReducer(state, action)
     /\ (pc > 0 /\ pc' = 0)
       => state' = harmonicsReducer(state, action)]_vars

\* C14 witness: the reducer holds a value with a new fundamental frequency
\* whose partials are not retuned yet, and the reader has read the cell.
ReaderSeesWholeSnapshotWitness ==
  /\ pc = 1
  /\ action.type = CHANGE_FUNDAMENTAL_FREQUENCY
  /\ pending.fundamentalFrequency = 44000
  /\ pending.partials[1].frequency = 26163
  /\ seen = state
  /\ seen.fundamentalFrequency = 26163

====
